---- MODULE Spec2Model ----
(***************************************************************************)
(* A model of the fiber-go client: the gRPC connection, the four          *)
(* persistent transaction streams opened by Connect, the four send        *)
(* operations that write on a stream from a spawned goroutine and read    *)
(* the next response, the four blocking subscriptions that pump a         *)
(* server stream into a caller's channel, and Close.                      *)
(*                                                                         *)
(* The gRPC runtime is the environment.  Its stream contract is the one   *)
(* grpc-go documents: SendMsg queues a message and returns; RecvMsg       *)
(* blocks for the next message, returns io.EOF when the stream completed  *)
(* and the RPC status otherwise; any error aborts the stream for good.    *)
(***************************************************************************)
EXTENDS Integers, Sequences, FiniteSets, TLC

\* ------------------------------------------------------------------ bounds
MaxCalls == 2       \* send calls issued in one behaviour
MaxBatch == 2       \* items in one sequence send
MaxSubs == 2        \* subscriptions started in one behaviour
MaxMsgs == 2        \* messages the server pushes on the subscription streams
WordBits == 8       \* bits of the model's stand-in for the 64-bit wire integers
ChainBits == 4      \* bits of the model's stand-in for the 32-bit wire chain id

\* ------------------------------------------------------------- vocabulary
TxStreams == <<"txStream", "rawTxStream", "txSeqStream", "rawTxSeqStream">>

StreamNames == {TxStreams[i] : i \in 1..4}

SeqStreams == {"txSeqStream", "rawTxSeqStream"}

EncodedStreams == {"txStream", "txSeqStream"}

SubKinds == {"NewTxs", "ExecutionPayloadHeaders", "ExecutionPayloads", "BeaconBlocks"}

NoAddr == "nil"

ZeroAddr == "0x0"

NilTx == [nil |-> TRUE]

SeqsUpTo(S, n) == UNION {[1..k -> S] : k \in 0..n}

\* ------------------------------------------------------------------ codec
RECURSIVE Pow2(_)
Pow2(n) == IF n = 0 THEN 1 ELSE 2 * Pow2(n - 1)

\* big.Int.Uint64 of a non-negative value: its low word.
Uint64(x) == x % Pow2(WordBits)

\* uint32(x): the low bits of a word.
Uint32(x) == x % Pow2(ChainBits)

\* big.NewInt(int64(u)): the word read as a signed integer.
Int64(u) == IF u >= Pow2(WordBits - 1) THEN u - Pow2(WordBits) ELSE u

\* big.Int.Bytes: the big-endian bytes of the absolute value.
RECURSIVE BigBytes(_)
BigBytes(x) == IF x = 0 THEN <<>> ELSE Append(BigBytes(x \div 256), x % 256)

\* new(big.Int).SetBytes: the unsigned value of big-endian bytes.
RECURSIVE SetBytes(_)
SetBytes(b) ==
  IF b = <<>> THEN 0 ELSE 256 * SetBytes(SubSeq(b, 1, Len(b) - 1)) + b[Len(b)]

\* The accessors of a transaction.  A legacy transaction derives its chain id
\* from V; legacy and access-list transactions report their gas price as fee
\* cap and tip cap, a dynamic-fee transaction its fee cap as gas price.
TxChainId(tx) ==
  IF tx.type = 0
  THEN (IF tx.v \in {27, 28} THEN 0 ELSE (tx.v - 35) \div 2)
  ELSE tx.chainId

TxGasPrice(tx) == IF tx.type = 2 THEN tx.gasFeeCap ELSE tx.gasPrice

TxGasFeeCap(tx) == IF tx.type = 2 THEN tx.gasFeeCap ELSE tx.gasPrice

TxGasTipCap(tx) == IF tx.type = 2 THEN tx.gasTipCap ELSE tx.gasPrice

\* types.Sender under NewLondonSigner(1): the signature must verify, a typed
\* transaction must be of chain 1, a legacy one of chain 1 or unprotected.
SenderOk(tx) ==
  /\ tx.sigOk
  /\ TxChainId(tx) \in (IF tx.type = 0 THEN {0, 1} ELSE {1})

TxHash(tx) ==
  <<tx.type, tx.chainId, tx.nonce, tx.gasPrice, tx.gasFeeCap, tx.gasTipCap,
    tx.gas, tx.to, tx.value, tx.data, tx.v, tx.r, tx.s>>

\* TxToProto: fails when the sender cannot be recovered from the signature,
\* otherwise copies the accessor values into the wire message.
TxToProto(tx) ==
  IF ~SenderOk(tx)
  THEN [ok |-> FALSE, proto |-> NilTx]
  ELSE [ok |-> TRUE,
        proto |-> [ChainId |-> Uint32(Uint64(TxChainId(tx))),
                   To |-> tx.to,
                   Gas |-> tx.gas,
                   GasPrice |-> Uint64(TxGasPrice(tx)),
                   MaxFee |-> Uint64(TxGasFeeCap(tx)),
                   PriorityFee |-> Uint64(TxGasTipCap(tx)),
                   Hash |-> TxHash(tx),
                   Input |-> tx.data,
                   Nonce |-> tx.nonce,
                   Value |-> BigBytes(tx.value),
                   From |-> tx.from,
                   Type |-> tx.type,
                   V |-> Uint64(tx.v),
                   R |-> BigBytes(tx.r),
                   S |-> BigBytes(tx.s)]]

\* The fields the three decoded shapes share.
DecodedCommon(proto, to) ==
  [nil |-> FALSE, type |-> proto.Type, chainId |-> 0, nonce |-> proto.Nonce,
   gasPrice |-> 0, gasFeeCap |-> 0, gasTipCap |-> 0, gas |-> proto.Gas,
   to |-> to, value |-> SetBytes(proto.Value), data |-> proto.Input,
   v |-> Int64(proto.V), r |-> SetBytes(proto.R), s |-> SetBytes(proto.S)]

\* ProtoToTx: a fresh zero address unless the wire recipient is non-empty,
\* then a switch on the type tag; an unknown tag yields nil.
ProtoToTx(proto) ==
  LET to == IF proto.To # NoAddr THEN proto.To ELSE ZeroAddr
      tx == DecodedCommon(proto, to)
  IN  CASE proto.Type = 0 ->
             [tx EXCEPT !.gasPrice = Int64(proto.GasPrice)]
        [] proto.Type = 1 ->
             [tx EXCEPT !.chainId = Int64(proto.ChainId),
                        !.gasPrice = Int64(proto.GasPrice)]
        [] proto.Type = 2 ->
             [tx EXCEPT !.chainId = Int64(proto.ChainId),
                        !.gasFeeCap = Int64(proto.MaxFee),
                        !.gasTipCap = Int64(proto.PriorityFee)]
        [] OTHER -> NilTx

\* The decoders of the three block feeds wrap the message they are given.
ProtoToOther(kind, proto) == [nil |-> FALSE, kind |-> kind, of |-> proto]

Decode(kind, proto) ==
  IF kind = "NewTxs" THEN ProtoToTx(proto) ELSE ProtoToOther(kind, proto)

\* A signed legacy transfer.
BaseTx ==
  [sigOk |-> TRUE, from |-> "0xf", type |-> 0, chainId |-> 0, nonce |-> 1,
   gasPrice |-> 1, gasFeeCap |-> 0, gasTipCap |-> 0, gas |-> 21, to |-> NoAddr,
   value |-> 0, data |-> <<>>, v |-> 37, r |-> 1, s |-> 1]

\* Transactions a caller may pass to SendTransaction / SendTransactionSequence.
SampleTxs == { [BaseTx EXCEPT !.sigOk = b] : b \in BOOLEAN }

\* Raw transactions are opaque bytes.
SampleRaw == {"raw"}

BaseProto == TxToProto(BaseTx).proto

\* Messages a server may push on a subscription stream.
SampleProtos ==
  { BaseProto, [BaseProto EXCEPT !.Type = 3, !.Nonce = 2, !.To = "0xa"] }

\* Fee values around the sign bit and the top of the wire word.
FeeSamples ==
  {0, 1, Pow2(WordBits - 1) - 1, Pow2(WordBits - 1), Pow2(WordBits) - 1,
   Pow2(WordBits) + 1}

\* Transactions handed to the codec: the three types, with and without a
\* recipient, with a good or a bad signature, of the signer's chain or not.
CodecTxs ==
  { [BaseTx EXCEPT !.sigOk = b, !.gasPrice = p, !.to = a, !.value = w,
                   !.v = v, !.data = d]
      : b \in BOOLEAN, p \in FeeSamples, a \in {NoAddr, "0xa"}, w \in {0, 300},
        v \in {27, 37, 39}, d \in {<<>>, <<7>>} }
  \cup
  { [BaseTx EXCEPT !.type = 1, !.chainId = ch, !.gasPrice = p, !.to = a, !.v = 1]
      : ch \in {1, 2}, p \in FeeSamples, a \in {NoAddr, "0xa"} }
  \cup
  { [BaseTx EXCEPT !.type = 2, !.chainId = 1, !.gasPrice = 0, !.gasFeeCap = p,
                   !.gasTipCap = q, !.to = a, !.v = 0, !.r = 300]
      : p \in FeeSamples, q \in FeeSamples, a \in {NoAddr, "0xa"} }

\* ------------------------------------------------------------------ state
VARIABLES
  conn,        \* c.conn: "nil", "open" or "closed"
  client,      \* c.client is set
  connStep,    \* Connect: 0 before the dial, 1..4 the stream opened next, 5 after
  connectRet,  \* Connect's result: "none" (not returned), "ok" or "err"
  stream,      \* per transaction stream: handle set, transport state, queues
  call,        \* per send call: caller position, worker goroutine, result
  closePc,     \* Close: 0..3 streams closed so far, 4 before conn.Close, 5 returned,
               \* 6 panicked
  closeLog,    \* the close operations Close has performed, in order
  crashed,     \* the process panicked
  sub,         \* per subscription kind: router position, received messages, result
  subStream,   \* per subscription kind: the server stream
  feed,        \* per subscription kind: the caller's delivery channel
  codec        \* a transaction on its way through TxToProto and ProtoToTx

vars == <<conn, client, connStep, connectRet, stream, call, closePc, closeLog,
          crashed, sub, subStream, feed, codec>>

connVars == <<conn, client, connStep, connectRet>>

closeVars == <<closePc, closeLog>>

subVars == <<sub, subStream, feed>>

NoRet == [kind |-> "none", err |-> "", of |-> 0, hashes |-> <<>>, ts |-> 0]

ErrRet(e) == [kind |-> "err", err |-> e, of |-> 0, hashes |-> <<>>, ts |-> 0]

NewStream == [handle |-> FALSE, state |-> "none", sendClosed |-> FALSE,
              reqQ |-> <<>>, respQ |-> <<>>]

\* sends and recvs count the stream writes and reads made for the call;
\* lostSendErr records a return taken while the worker held a write error;
\* cancelled records that the context passed to the call has been cancelled.
NewCall == [pc |-> "idle", strm |-> "txStream", n |-> 0, worker |-> "none",
            ret |-> NoRet, sends |-> 0, recvs |-> 0, lostSendErr |-> FALSE,
            cancelled |-> FALSE]

NewSub == [pc |-> "idle", filter |-> "nil", hand |-> NilTx, recvd |-> <<>>,
           ret |-> "none", returns |-> 0]

NewSubStream == [state |-> "none", inq |-> <<>>, sent |-> <<>>]

\* The delivery channel is unbuffered: a send completes when the caller's
\* consumer takes the value.
NewFeed == [delivered |-> <<>>, closes |-> 0, lateWrites |-> 0]

NoCodec == [pc |-> "off", tx |-> NilTx, wire |-> NilTx, out |-> NilTx]

\* NewClient: nothing dialed, no stub, no stream handle.
NewClient ==
  /\ conn = "nil"
  /\ client = FALSE
  /\ connStep = 0
  /\ connectRet = "none"
  /\ stream = [s \in StreamNames |-> NewStream]
  /\ call = [c \in 1..MaxCalls |-> NewCall]
  /\ closePc = 0
  /\ closeLog = <<>>
  /\ crashed = FALSE
  /\ sub = [k \in SubKinds |-> NewSub]
  /\ subStream = [k \in SubKinds |-> NewSubStream]
  /\ feed = [k \in SubKinds |-> NewFeed]

Init == NewClient /\ codec = NoCodec

\* ---------------------------------------------------------------- Connect
\* grpc.DialContext: on error Connect returns it; otherwise c.conn and the
\* stub are set.
ConnectDial ==
  /\ ~crashed
  /\ connectRet = "none"
  /\ connStep = 0
  /\ \/ /\ connectRet' = "err"
        /\ UNCHANGED <<conn, client, connStep>>
     \/ /\ conn' = "open"
        /\ client' = TRUE
        /\ connStep' = 1
        /\ UNCHANGED connectRet
  /\ UNCHANGED <<codec, stream, call, closePc, closeLog, crashed, sub, subStream, feed>>

\* One of the four c.client.Send...(ctx) stream opens, in source order.  On
\* error Connect returns it and touches nothing it set before.
ConnectOpenStream ==
  /\ ~crashed
  /\ connectRet = "none"
  /\ connStep \in 1..4
  /\ \/ /\ connectRet' = "err"
        /\ UNCHANGED <<connStep, stream>>
     \/ /\ stream' = [stream EXCEPT ![TxStreams[connStep]] =
                        [NewStream EXCEPT !.handle = TRUE, !.state = "open"]]
        /\ connStep' = connStep + 1
        /\ connectRet' = IF connStep = 4 THEN "ok" ELSE "none"
  /\ UNCHANGED <<codec, conn, client, call, closePc, closeLog, crashed, sub, subStream, feed>>

Connect == ConnectDial \/ ConnectOpenStream

\* ------------------------------------------------------- gRPC environment
\* The server answers the oldest request on a stream: one result item per
\* request item.  "of" records which call's request the response answers;
\* the wire message carries no such identifier.
ResponseTo(req) ==
  [of |-> req.id,
   items |-> [i \in 1..req.n |-> [hash |-> <<req.id, i>>, ts |-> i]]]

ServerRespond(s) ==
  /\ ~crashed
  /\ stream[s].state = "open"
  /\ stream[s].reqQ # <<>>
  /\ stream' = [stream EXCEPT
                  ![s].reqQ = Tail(@),
                  ![s].respQ = Append(@, ResponseTo(Head(stream[s].reqQ)))]
  /\ UNCHANGED <<codec, connVars, call, closeVars, crashed, subVars>>

\* The transport aborts one stream: requests still in flight are lost and
\* every later Send or Recv on it fails.
StreamBreak(s) ==
  /\ ~crashed
  /\ stream[s].state = "open"
  /\ stream' = [stream EXCEPT ![s].state = "broken", ![s].reqQ = <<>>]
  /\ UNCHANGED <<codec, connVars, call, closeVars, crashed, subVars>>

\* ------------------------------------------------------------ send calls
\* The callers follow the contract of one call at a time: a call is issued
\* only when every earlier call has returned.
Serialized(c) == \A d \in 1..(c - 1) : call[d].pc = "done"

\* A client that holds a lock for the length of a call.
NextCallLocked(c) ==
  /\ call[c].pc = "idle"
  /\ closePc = 0
  /\ \A d \in 1..(c - 1) : call[d].pc \notin {"idle", "select", "recv"}

\* Calls are numbered in the order they are issued, and none is issued
\* once Close has been called.
NextCall(c) ==
  /\ call[c].pc = "idle"
  /\ closePc = 0
  /\ \A d \in 1..(c - 1) : call[d].pc # "idle"

EncodeFails(txs) == \E i \in 1..Len(txs) : ~TxToProto(txs[i]).ok

\* make(chan error); go func() { Send }: the caller moves on to its select.
Launch(c, s, n) ==
  call' = [call EXCEPT ![c] = [NewCall EXCEPT !.pc = "select", !.strm = s,
                                               !.n = n, !.worker = "run"]]

\* A call that returns before launching anything.
EarlyReturn(c, s, n, e) ==
  call' = [call EXCEPT ![c] = [NewCall EXCEPT !.pc = "done", !.strm = s,
                                               !.n = n, !.ret = ErrRet(e)]]

SendTransaction(c, tx) ==
  /\ ~crashed
  /\ connectRet # "none"
  /\ NextCall(c)
  /\ IF EncodeFails(<<tx>>)
     THEN EarlyReturn(c, "txStream", 1, "EncodeErr")
     ELSE Launch(c, "txStream", 1)
  /\ UNCHANGED <<codec, connVars, stream, closeVars, crashed, subVars>>

SendRawTransaction(c, rawTx) ==
  /\ ~crashed
  /\ connectRet # "none"
  /\ NextCall(c)
  /\ Launch(c, "rawTxStream", 1)
  /\ UNCHANGED <<codec, connVars, stream, closeVars, crashed, subVars>>

\* A sequence send that launches its worker before it encodes.
SendTransactionSequenceLaunchFirst(c, transactions) ==
  /\ ~crashed
  /\ connectRet # "none"
  /\ NextCall(c)
  /\ IF EncodeFails(transactions)
     THEN call' = [call EXCEPT ![c] =
                     [NewCall EXCEPT !.pc = "done", !.strm = "txSeqStream",
                                     !.n = Len(transactions), !.worker = "run",
                                     !.ret = ErrRet("EncodeErr")]]
     ELSE Launch(c, "txSeqStream", Len(transactions))
  /\ UNCHANGED <<codec, connVars, stream, closeVars, crashed, subVars>>

SendTransactionSequence(c, transactions) ==
  /\ ~crashed
  /\ connectRet # "none"
  /\ NextCall(c)
  /\ IF EncodeFails(transactions)
     THEN EarlyReturn(c, "txSeqStream", Len(transactions), "EncodeErr")
     ELSE Launch(c, "txSeqStream", Len(transactions))
  /\ UNCHANGED <<codec, connVars, stream, closeVars, crashed, subVars>>

SendRawTransactionSequence(c, rawTransactions) ==
  /\ ~crashed
  /\ connectRet # "none"
  /\ NextCall(c)
  /\ Launch(c, "rawTxSeqStream", Len(rawTransactions))
  /\ UNCHANGED <<codec, connVars, stream, closeVars, crashed, subVars>>

\* A worker that writes its message twice.
WorkerSendTwice(c) ==
  LET s == call[c].strm
      req == [id |-> c, n |-> call[c].n] IN
  /\ ~crashed
  /\ call[c].worker = "run"
  /\ stream[s].handle
  /\ IF stream[s].state = "open" /\ ~stream[s].sendClosed
     THEN /\ stream' = [stream EXCEPT ![s].reqQ = Append(Append(@, req), req)]
          /\ call' = [call EXCEPT ![c].worker = "exited", ![c].sends = @ + 1]
     ELSE /\ call' = [call EXCEPT ![c].worker = "blocked", ![c].sends = @ + 1]
          /\ UNCHANGED stream
  /\ UNCHANGED <<codec, connVars, closeVars, crashed, subVars>>

\* The spawned goroutine: stream.Send(msg); on error, errc <- err, which
\* blocks until the caller receives from errc.  A nil stream handle panics.
WorkerSend(c) ==
  LET s == call[c].strm IN
  /\ ~crashed
  /\ call[c].worker = "run"
  /\ IF ~stream[s].handle
     THEN /\ crashed' = TRUE
          /\ UNCHANGED <<stream, call>>
     ELSE IF stream[s].state = "open" /\ ~stream[s].sendClosed
     THEN /\ stream' = [stream EXCEPT ![s].reqQ =
                          Append(@, [id |-> c, n |-> call[c].n])]
          /\ call' = [call EXCEPT ![c].worker = "exited", ![c].sends = @ + 1]
          /\ UNCHANGED crashed
     ELSE /\ call' = [call EXCEPT ![c].worker = "blocked", ![c].sends = @ + 1]
          /\ UNCHANGED <<stream, crashed>>
  /\ UNCHANGED <<codec, connVars, closeVars, subVars>>

\* select { case err := <-errc: return err; default: }: the receive is taken
\* only if the worker is already blocked in its send on errc.
CallerSelect(c) ==
  /\ ~crashed
  /\ call[c].pc = "select"
  /\ IF call[c].worker = "blocked"
     THEN call' = [call EXCEPT ![c].pc = "done", ![c].worker = "exited",
                               ![c].ret = ErrRet("SendErr")]
     ELSE call' = [call EXCEPT ![c].pc = "recv"]
  /\ UNCHANGED <<codec, connVars, stream, closeVars, crashed, subVars>>

\* A cancellation that makes a call waiting for its response return.
CancelCtxUnblocks(c) ==
  /\ ~crashed
  /\ call[c].pc \in {"select", "recv"}
  /\ ~call[c].cancelled
  /\ call' = [call EXCEPT ![c].cancelled = TRUE,
                          ![c].pc = IF call[c].pc = "recv" THEN "done" ELSE @,
                          ![c].ret = IF call[c].pc = "recv"
                                     THEN ErrRet("Canceled") ELSE @]
  /\ UNCHANGED <<codec, connVars, stream, closeVars, crashed, subVars>>

\* The caller cancels the context it passed to a send operation while the
\* call is in flight.  No send operation reads its ctx argument, so nothing
\* but the context changes.
CancelCtx(c) ==
  /\ ~crashed
  /\ call[c].pc \in {"select", "recv"}
  /\ ~call[c].cancelled
  /\ call' = [call EXCEPT ![c].cancelled = TRUE]
  /\ UNCHANGED <<codec, connVars, stream, closeVars, crashed, subVars>>

\* A result that takes the timestamp of the last item.
OkRetLastTimestamp(s, res) ==
  [kind |-> "ok", err |-> "", of |-> res.of,
   hashes |-> [i \in 1..Len(res.items) |-> res.items[i].hash],
   ts |-> res.items[Len(res.items)].ts]

\* A result whose copy loop stops one item early.
OkRetDropsLastHash(s, res) ==
  [kind |-> "ok", err |-> "", of |-> res.of,
   hashes |-> [i \in 1..Len(res.items) |->
                 IF i < Len(res.items) \/ i = 1 THEN res.items[i].hash ELSE <<>>],
   ts |-> res.items[1].ts]

\* What the caller makes of a received response: hash and timestamp of a
\* single response; for a sequence, one hash per item and the timestamp of
\* item 0.
OkRet(s, res) ==
  [kind |-> "ok", err |-> "", of |-> res.of,
   hashes |-> [i \in 1..Len(res.items) |-> res.items[i].hash],
   ts |-> res.items[1].ts]

\* A caller that reads again after a failed read.
CallerRecvRetries(c) ==
  LET s == call[c].strm IN
  /\ ~crashed
  /\ call[c].pc = "recv"
  /\ stream[s].handle
  /\ IF stream[s].respQ # <<>>
     THEN LET res == Head(stream[s].respQ) IN
          /\ res.items # <<>>
          /\ stream' = [stream EXCEPT ![s].respQ = Tail(@)]
          /\ call' = [call EXCEPT ![c].pc = "done", ![c].recvs = @ + 1,
                                  ![c].ret = OkRet(s, res)]
     ELSE /\ stream[s].state = "broken"
          /\ call' = [call EXCEPT ![c].pc = IF call[c].recvs = 0
                                            THEN "recv" ELSE "done",
                                  ![c].recvs = @ + 1,
                                  ![c].ret = IF call[c].recvs = 0
                                             THEN @ ELSE ErrRet("RecvErr")]
          /\ UNCHANGED stream
  /\ UNCHANGED <<codec, connVars, closeVars, crashed, subVars>>

\* A caller that closes the connection when its read fails.
CallerRecvTearsDown(c) ==
  LET s == call[c].strm IN
  /\ ~crashed
  /\ call[c].pc = "recv"
  /\ stream[s].handle
  /\ IF stream[s].respQ # <<>>
     THEN LET res == Head(stream[s].respQ) IN
          /\ res.items # <<>>
          /\ stream' = [stream EXCEPT ![s].respQ = Tail(@)]
          /\ call' = [call EXCEPT ![c].pc = "done", ![c].recvs = @ + 1,
                                  ![c].ret = OkRet(s, res)]
          /\ UNCHANGED conn
     ELSE /\ stream[s].state = "broken"
          /\ call' = [call EXCEPT ![c].pc = "done", ![c].recvs = @ + 1,
                                  ![c].ret = ErrRet("RecvErr")]
          /\ conn' = "closed"
          /\ UNCHANGED stream
  /\ UNCHANGED <<codec, client, connStep, connectRet, closeVars, crashed, subVars>>

\* stream.Recv(), then return: blocks until the stream holds a response or
\* has failed.  Indexing item 0 of an empty sequence response panics; the
\* call is then left at "panic".
CallerRecv(c) ==
  LET s == call[c].strm IN
  /\ ~crashed
  /\ call[c].pc = "recv"
  /\ IF ~stream[s].handle
     THEN /\ crashed' = TRUE
          /\ UNCHANGED <<stream, call>>
     ELSE IF stream[s].respQ # <<>>
     THEN LET res == Head(stream[s].respQ) IN
          /\ stream' = [stream EXCEPT ![s].respQ = Tail(@)]
          /\ IF s \in SeqStreams /\ res.items = <<>>
             THEN /\ crashed' = TRUE
                  /\ call' = [call EXCEPT ![c].pc = "panic", ![c].recvs = @ + 1]
             ELSE /\ call' = [call EXCEPT ![c].pc = "done",
                                          ![c].recvs = @ + 1,
                                          ![c].lostSendErr = (call[c].worker = "blocked"),
                                          ![c].ret = OkRet(s, res)]
                  /\ UNCHANGED crashed
     ELSE /\ stream[s].state = "broken"
          /\ call' = [call EXCEPT ![c].pc = "done",
                                  ![c].recvs = @ + 1,
                                  ![c].lostSendErr = (call[c].worker = "blocked"),
                                  ![c].ret = ErrRet("RecvErr")]
          /\ UNCHANGED <<stream, crashed>>
  /\ UNCHANGED <<codec, connVars, closeVars, subVars>>

\* ---------------------------------------------------------- subscriptions
\* A subscribe operation that closes the caller's channel when the open fails.
SubscribeOpenClosesFeed(k, f) ==
  /\ ~crashed
  /\ connectRet # "none"
  /\ sub[k].pc = "idle"
  /\ client
  /\ \/ /\ sub' = [sub EXCEPT ![k].pc = "done", ![k].filter = f,
                              ![k].ret = "OpenErr", ![k].returns = @ + 1]
        /\ feed' = [feed EXCEPT ![k].closes = @ + 1]
        /\ UNCHANGED subStream
     \/ /\ conn = "open"
        /\ sub' = [sub EXCEPT ![k].pc = "recv", ![k].filter = f]
        /\ subStream' = [subStream EXCEPT ![k].state = "open"]
        /\ UNCHANGED feed
  /\ UNCHANGED <<codec, connVars, stream, call, closeVars, crashed>>

\* The head of a subscribe operation: the server-streaming call is issued on
\* the stub (a nil stub panics); on error the operation returns it wrapped,
\* otherwise the router enters its receive loop.
SubscribeOpen(k, f) ==
  /\ ~crashed
  /\ connectRet # "none"
  /\ sub[k].pc = "idle"
  /\ IF ~client
     THEN /\ crashed' = TRUE
          /\ UNCHANGED <<sub, subStream>>
     ELSE \/ /\ sub' = [sub EXCEPT ![k].pc = "done", ![k].filter = f,
                                   ![k].ret = "OpenErr", ![k].returns = @ + 1]
             /\ UNCHANGED <<subStream, crashed>>
          \/ /\ conn = "open"
             /\ sub' = [sub EXCEPT ![k].pc = "recv", ![k].filter = f]
             /\ subStream' = [subStream EXCEPT ![k].state = "open"]
             /\ UNCHANGED crashed
  /\ UNCHANGED <<codec, connVars, stream, call, closeVars, feed>>

SubscribeNewTxs(f) == SubscribeOpen("NewTxs", f)

SubscribeNewExecutionPayloadHeaders == SubscribeOpen("ExecutionPayloadHeaders", "nil")

SubscribeNewExecutionPayloads == SubscribeOpen("ExecutionPayloads", "nil")

SubscribeNewBeaconBlocks == SubscribeOpen("BeaconBlocks", "nil")

\* A router that turns a clean end of stream into a nil result.
RecvErrorNilOnEOF(k) == IF subStream[k].state = "eof" THEN "nil" ELSE "TransportErr"

\* What Recv reports when the stream has ended: io.EOF after a clean end,
\* the RPC status after a transport failure.
RecvError(k) == IF subStream[k].state = "eof" THEN "EOF" ELSE "TransportErr"

\* A router that closes the channel on a receive error and loops on.
SubRecvLoopsOn(k) ==
  /\ ~crashed
  /\ sub[k].pc = "recv"
  /\ IF subStream[k].inq # <<>>
     THEN /\ sub' = [sub EXCEPT ![k].pc = "push",
                                ![k].hand = Head(subStream[k].inq),
                                ![k].recvd = Append(@, Head(subStream[k].inq))]
          /\ subStream' = [subStream EXCEPT ![k].inq = Tail(@)]
          /\ UNCHANGED <<feed, crashed>>
     ELSE /\ subStream[k].state \in {"eof", "err"}
          /\ feed' = [feed EXCEPT ![k].closes = @ + 1]
          /\ crashed' = (feed[k].closes > 0)
          /\ UNCHANGED <<sub, subStream>>
  /\ UNCHANGED <<codec, connVars, stream, call, closeVars>>

\* proto, err := res.Recv(); if err != nil { close(ch); return err }.
\* Closing a channel that is already closed panics.
SubRecv(k) ==
  /\ ~crashed
  /\ sub[k].pc = "recv"
  /\ IF subStream[k].inq # <<>>
     THEN /\ sub' = [sub EXCEPT ![k].pc = "push",
                                ![k].hand = Head(subStream[k].inq),
                                ![k].recvd = Append(@, Head(subStream[k].inq))]
          /\ subStream' = [subStream EXCEPT ![k].inq = Tail(@)]
          /\ UNCHANGED <<feed, crashed>>
     ELSE /\ subStream[k].state \in {"eof", "err"}
          /\ feed' = [feed EXCEPT ![k].closes = @ + 1]
          /\ crashed' = (feed[k].closes > 0)
          /\ sub' = [sub EXCEPT ![k].pc = "done", ![k].ret = RecvError(k),
                                ![k].returns = @ + 1]
          /\ UNCHANGED subStream
  /\ UNCHANGED <<codec, connVars, stream, call, closeVars>>

\* A router that drops the value when no consumer is ready to take it.
SubPushDropsWhenBusy(k) ==
  /\ ~crashed
  /\ sub[k].pc = "push"
  /\ feed[k].closes = 0
  /\ \/ feed' = [feed EXCEPT ![k].delivered = Append(@, Decode(k, sub[k].hand))]
     \/ UNCHANGED feed
  /\ sub' = [sub EXCEPT ![k].pc = "recv", ![k].hand = NilTx]
  /\ UNCHANGED <<codec, connVars, stream, call, closeVars, crashed, subStream>>

\* ch <- Decode(proto): blocks until the consumer takes the value, so the
\* step is the hand-over; a send on a closed channel panics.
SubPush(k) ==
  /\ ~crashed
  /\ sub[k].pc = "push"
  /\ IF feed[k].closes > 0
     THEN /\ crashed' = TRUE
          /\ feed' = [feed EXCEPT ![k].lateWrites = @ + 1]
          /\ UNCHANGED sub
     ELSE /\ feed' = [feed EXCEPT ![k].delivered = Append(@, Decode(k, sub[k].hand))]
          /\ sub' = [sub EXCEPT ![k].pc = "recv", ![k].hand = NilTx]
          /\ UNCHANGED crashed
  /\ UNCHANGED <<codec, connVars, stream, call, closeVars, subStream>>

\* The server pushes one more message on an open subscription stream.
ServerPush(k, m) ==
  /\ ~crashed
  /\ subStream[k].state = "open"
  /\ subStream' = [subStream EXCEPT ![k].inq = Append(@, m),
                                    ![k].sent = Append(@, m)]
  /\ UNCHANGED <<codec, connVars, stream, call, closeVars, crashed, sub, feed>>

\* The subscription stream ends: cleanly ("eof") or by a transport failure.
ServerEnd(k, how) ==
  /\ ~crashed
  /\ subStream[k].state = "open"
  /\ subStream' = [subStream EXCEPT ![k].state = how]
  /\ UNCHANGED <<codec, connVars, stream, call, closeVars, crashed, sub, feed>>

\* ------------------------------------------------------------------ Close
\* A Close that returns the first CloseSend error.
CloseSendStepReturnsError ==
  /\ ~crashed
  /\ connectRet # "none"
  /\ closePc \in 0..3
  /\ closePc = 0 => \A c \in 1..MaxCalls : call[c].pc \in {"idle", "done"}
  /\ LET s == TxStreams[closePc + 1] IN
     /\ stream[s].handle
     /\ stream' = [stream EXCEPT ![s].sendClosed = TRUE]
     /\ closeLog' = Append(closeLog,
                           [op |-> s, err |-> stream[s].state # "open"])
     /\ closePc' = IF stream[s].state # "open" THEN 5 ELSE closePc + 1
  /\ UNCHANGED <<codec, connVars, call, crashed, subVars>>

\* The four CloseSend calls in source order, their errors dropped.  A nil
\* stream handle panics.
CloseSendStep ==
  /\ ~crashed
  /\ connectRet # "none"
  /\ closePc \in 0..3
  /\ closePc = 0 => \A c \in 1..MaxCalls : call[c].pc \in {"idle", "done"}
  /\ LET s == TxStreams[closePc + 1] IN
     IF ~stream[s].handle
     THEN /\ crashed' = TRUE
          /\ closePc' = 6
          /\ UNCHANGED <<stream, closeLog>>
     ELSE /\ stream' = [stream EXCEPT ![s].sendClosed = TRUE]
          /\ closeLog' = Append(closeLog,
                                [op |-> s, err |-> stream[s].state # "open"])
          /\ closePc' = closePc + 1
          /\ UNCHANGED crashed
  /\ UNCHANGED <<codec, connVars, call, subVars>>

\* return c.conn.Close(): tears down every stream on the connection.
CloseConn ==
  /\ ~crashed
  /\ closePc = 4
  /\ conn' = "closed"
  /\ stream' = [s \in StreamNames |->
                  IF stream[s].state = "open"
                  THEN [stream[s] EXCEPT !.state = "broken", !.reqQ = <<>>]
                  ELSE stream[s]]
  /\ subStream' = [k \in SubKinds |->
                     IF subStream[k].state = "open"
                     THEN [subStream[k] EXCEPT !.state = "err"]
                     ELSE subStream[k]]
  /\ closeLog' = Append(closeLog, [op |-> "conn", err |-> FALSE])
  /\ closePc' = 5
  /\ UNCHANGED <<codec, client, connStep, connectRet, call, crashed, sub, feed>>

Close == CloseSendStep \/ CloseConn

\* -------------------------------------------------------- specifications
SendStep(c) ==
  \/ \E tx \in SampleTxs : SendTransaction(c, tx)
  \/ \E raw \in SampleRaw : SendRawTransaction(c, raw)
  \/ \E txs \in SeqsUpTo(SampleTxs, MaxBatch) : SendTransactionSequence(c, txs)
  \/ \E raws \in SeqsUpTo(SampleRaw, MaxBatch) : SendRawTransactionSequence(c, raws)

CallStep(c) == WorkerSend(c) \/ CallerSelect(c) \/ CallerRecv(c)

\* A stream some call is working on.
InUse(s) ==
  \E c \in 1..MaxCalls :
    call[c].strm = s /\ (call[c].pc \in {"select", "recv"} \/ call[c].worker = "run")

StreamEnv ==
  \E s \in StreamNames :
    \/ ServerRespond(s)
    \/ InUse(s) /\ StreamBreak(s)

\* Connect and serialized send calls.
Next ==
  \/ Connect
  \/ \E c \in 1..MaxCalls : Serialized(c) /\ SendStep(c)
  \/ \E c \in 1..MaxCalls : CallStep(c)
  \/ StreamEnv

Spec == Init /\ [][Next]_vars

\* Connect and the subscriptions.  The subscribe operations called so far:
Started == {k \in SubKinds : sub[k].pc # "idle"}

RECURSIVE SumLen(_, _)
SumLen(f, S) ==
  IF S = {} THEN 0
  ELSE LET k == CHOOSE x \in S : TRUE IN Len(f[k].sent) + SumLen(f, S \ {k})

SubscribeStep ==
  \/ \E f \in {"nil", "filter"} : SubscribeNewTxs(f)
  \/ SubscribeNewExecutionPayloadHeaders
  \/ SubscribeNewExecutionPayloads
  \/ SubscribeNewBeaconBlocks

RouterStep(k) == SubRecv(k) \/ SubPush(k)

SubEnv(k) ==
  \/ \E m \in SampleProtos : SumLen(subStream, SubKinds) < MaxMsgs /\ ServerPush(k, m)
  \/ \E how \in {"eof", "err"} : ServerEnd(k, how)

\* Subscriptions are started once Connect has succeeded, or when its dial
\* failed and left the stub unset.
NextSub ==
  \/ Connect
  \/ (connectRet = "ok" \/ ~client) /\ Cardinality(Started) < MaxSubs /\ SubscribeStep
  \/ \E k \in SubKinds : RouterStep(k)
  \/ \E k \in SubKinds : SubEnv(k)

SpecSub == Init /\ [][NextSub]_vars

\* Connect, the first send call and Close.
ClientCalls == {1}

NextClose ==
  \/ Connect
  \/ \E c \in ClientCalls : SendStep(c)
  \/ \E c \in ClientCalls : CallStep(c)
  \/ StreamEnv
  \/ Close

SpecClose == Init /\ [][NextClose]_vars

\* Connect, the first send call and two of the subscription kinds with one
\* message each.
IsoKinds == {"NewTxs", "BeaconBlocks"}

IsoProto == [BaseProto EXCEPT !.Type = 2, !.Nonce = 3, !.To = "0xa"]

IsoSubscribeStep ==
  \/ SubscribeNewTxs("nil")
  \/ SubscribeNewBeaconBlocks

IsoSubEnv(k) ==
  \/ subStream[k].sent = <<>> /\ ServerPush(k, IsoProto)
  \/ \E how \in {"eof", "err"} : ServerEnd(k, how)

NextIso ==
  \/ Connect
  \/ \E c \in ClientCalls : SendStep(c)
  \/ \E c \in ClientCalls : CallStep(c)
  \/ StreamEnv
  \/ IsoSubscribeStep
  \/ \E k \in IsoKinds : RouterStep(k)
  \/ \E k \in IsoKinds : IsoSubEnv(k)

SpecIso == Init /\ [][NextIso]_vars

\* Connect, then two send calls that the callers do not serialize, and the
\* cancellation of their contexts.
ConcCalls == {1, 2}

NextConc ==
  \/ Connect
  \/ \E c \in ConcCalls : connectRet = "ok" /\ SendStep(c)
  \/ \E c \in ConcCalls : CallStep(c)
  \/ \E c \in ConcCalls : CancelCtx(c)
  \/ StreamEnv

SpecConc == Init /\ [][NextConc]_vars

\* The codec on its own: a transaction is encoded, then the wire message is
\* decoded.
InitCodec ==
  /\ NewClient
  /\ codec \in {[NoCodec EXCEPT !.pc = "tx", !.tx = tx] : tx \in CodecTxs}

CodecEncode ==
  /\ codec.pc = "tx"
  /\ LET r == TxToProto(codec.tx) IN
     codec' = [codec EXCEPT !.pc = IF r.ok THEN "wire" ELSE "encodeErr",
                            !.wire = r.proto]
  /\ UNCHANGED <<connVars, stream, call, closeVars, crashed, subVars>>

CodecDecode ==
  /\ codec.pc = "wire"
  /\ codec' = [codec EXCEPT !.pc = "out", !.out = ProtoToTx(codec.wire)]
  /\ UNCHANGED <<connVars, stream, call, closeVars, crashed, subVars>>

NextCodec == CodecEncode \/ CodecDecode

SpecCodec == InitCodec /\ [][NextCodec]_vars

\* ================================================================= claims
Usable(s) == stream[s].handle /\ stream[s].state = "open" /\ ~stream[s].sendClosed

Streamed(k) == sub[k].pc = "done" /\ sub[k].ret # "OpenErr"

Ended(k) == subStream[k].state \in {"eof", "err"}

Pushed(k) == feed[k].delivered

DecodeAll(k, ms) == [i \in 1..Len(ms) |-> Decode(k, ms[i])]

Front(q) == SubSeq(q, 1, Len(q) - 1)

\* C1: with calls issued one at a time, every call that returns a response
\* returns the response the server produced for its own request.
SerializedCallCorrectness ==
  \A c \in 1..MaxCalls : call[c].ret.kind = "ok" => call[c].ret.of = c

\* Two calls in a row on one stream, each answered.
SerializedCallWitness ==
  /\ call[1].ret.kind = "ok"
  /\ call[2].ret.kind = "ok"
  /\ call[1].strm = call[2].strm

\* C2: once Connect has returned an error, no transaction stream is usable
\* and the connection is not open.
ConnectAtomicity ==
  connectRet = "err" => conn # "open" /\ \A s \in StreamNames : ~Usable(s)

\* C3: the router closes the delivery channel at most once and only when the
\* stream has ended, never writes to it afterwards, returns at most once, and
\* a router that has returned from streaming closed the channel exactly once;
\* a router waiting on an ended, drained stream can take its closing step.
SubscriptionTermination ==
  \A k \in SubKinds :
    /\ feed[k].closes <= 1
    /\ feed[k].lateWrites = 0
    /\ sub[k].returns <= 1
    /\ feed[k].closes = 1 => Ended(k) /\ sub[k].pc = "done"
    /\ Streamed(k) => feed[k].closes = 1 /\ sub[k].returns = 1
    /\ (~crashed /\ sub[k].pc = "recv" /\ Ended(k)) => ENABLED SubRecv(k)

\* A subscription that delivered a value, then saw its stream end.
SubscriptionTerminationWitness ==
  \E k \in SubKinds :
    /\ Streamed(k)
    /\ feed[k].delivered # <<>>
    /\ feed[k].closes = 1

\* C4 as stated: a clean end of stream gives a nil result, a transport
\* failure gives the transport error.
TerminalResultNilOnCleanEnd ==
  \A k \in SubKinds :
    Streamed(k) =>
      sub[k].ret = (IF subStream[k].state = "eof" THEN "nil" ELSE "TransportErr")

\* C4 amended: a subscribe call that returns from streaming returns the error
\* Recv reported, io.EOF after a clean end and the transport error after a
\* failure; it never returns nil.
TerminalResultIsRecvError ==
  \A k \in SubKinds :
    Streamed(k) =>
      /\ sub[k].ret = (IF subStream[k].state = "eof" THEN "EOF" ELSE "TransportErr")
      /\ sub[k].ret # "nil"

\* A subscription whose stream ended cleanly and whose call has returned.
TerminalResultWitness ==
  \E k \in SubKinds : Streamed(k) /\ subStream[k].state = "eof"

\* C5: no call returns anything but the write error while its worker holds a
\* write error.
SendFailureSurfaced ==
  \A c \in 1..MaxCalls : ~call[c].lostSendErr

\* C6: the values pushed onto the delivery channel are the decoded messages
\* received, in arrival order, one per message; the messages received are
\* the ones the server sent, in order; and a subscription that has returned
\* has pushed every message and closed the channel.
SubscriptionDeliveryOrder ==
  \A k \in SubKinds :
    /\ sub[k].recvd \o subStream[k].inq = subStream[k].sent
    /\ Pushed(k) = DecodeAll(k, IF sub[k].pc = "push" THEN Front(sub[k].recvd)
                                                       ELSE sub[k].recvd)
    /\ Streamed(k) => /\ Pushed(k) = DecodeAll(k, subStream[k].sent)
                      /\ feed[k].closes = 1
    /\ feed[k].closes >= 1 => Ended(k)

\* Two different messages delivered in order, then the channel closed.
SubscriptionDeliveryWitness ==
  \E k \in SubKinds :
    /\ Streamed(k)
    /\ Len(subStream[k].sent) = 2
    /\ subStream[k].sent[1] # subStream[k].sent[2]
    /\ feed[k].delivered = DecodeAll(k, subStream[k].sent)
    /\ feed[k].closes = 1

\* C7: a subscribe operation whose open failed has returned once, never
\* entered the loop, and left the delivery channel untouched.
SubscriptionOpenFailure ==
  \A k \in SubKinds :
    sub[k].ret = "OpenErr" =>
      /\ sub[k].pc = "done"
      /\ sub[k].returns = 1
      /\ sub[k].recvd = <<>>
      /\ subStream[k] = NewSubStream
      /\ feed[k] = NewFeed

\* An open that failed on a live connection.
SubscriptionOpenFailureWitness ==
  \E k \in SubKinds : sub[k].ret = "OpenErr" /\ conn = "open"

\* C8: a call that returned an encode error launched no worker, made no
\* stream write or read, and no request of it is on any stream.
EncodeErrorBeforeIO ==
  \A c \in 1..MaxCalls :
    call[c].ret.err = "EncodeErr" =>
      /\ call[c].strm \in EncodedStreams
      /\ call[c].worker = "none"
      /\ call[c].sends = 0
      /\ call[c].recvs = 0
      /\ \A s \in StreamNames :
           /\ \A i \in 1..Len(stream[s].reqQ) : stream[s].reqQ[i].id # c
           /\ \A i \in 1..Len(stream[s].respQ) : stream[s].respQ[i].of # c

\* A batch of two with an item that does not encode, on a usable stream.
EncodeErrorWitness ==
  \E c \in 1..MaxCalls :
    /\ call[c].ret.err = "EncodeErr"
    /\ call[c].strm = "txSeqStream"
    /\ call[c].n = 2
    /\ Usable("txSeqStream")

\* C9: Close performs the four CloseSend calls in source order and then the
\* connection close, whatever the CloseSend calls report; the connection is
\* closed only after all four, and a Close that returned closed it.
CloseOrdering ==
  /\ \A i \in 1..Len(closeLog) :
       closeLog[i].op = (IF i <= 4 THEN TxStreams[i] ELSE "conn")
  /\ Len(closeLog) <= 5
  /\ conn = "closed" => /\ Len(closeLog) = 5
                        /\ \A s \in StreamNames : stream[s].sendClosed
  /\ closePc = 5 => conn = "closed"
  /\ (closePc = 4 /\ ~crashed) => ENABLED CloseConn

\* A Close that closed the connection after a CloseSend reported an error.
CloseOrderingWitness ==
  /\ conn = "closed"
  /\ \E i \in 1..Len(closeLog) : closeLog[i].err

\* C10: the step in which a send call returns an error leaves the
\* connection, the stub, the other transaction streams and every
\* subscription as they were; the step in which a subscription returns
\* leaves the connection, the stub, every transaction stream and the other
\* subscriptions as they were.
CallErrStep(c) ==
  call[c].pc # "done" /\ call'[c].pc = "done" /\ call'[c].ret.kind = "err"

SubErrStep(k) == sub[k].pc # "done" /\ sub'[k].pc = "done"

IsolationStep ==
  /\ \A c \in 1..MaxCalls :
       CallErrStep(c) =>
         /\ conn' = conn /\ client' = client
         /\ \A s \in StreamNames \ {call'[c].strm} : stream'[s] = stream[s]
         /\ subVars' = subVars
  /\ \A k \in SubKinds :
       SubErrStep(k) =>
         /\ conn' = conn /\ client' = client
         /\ stream' = stream
         /\ \A j \in SubKinds \ {k} :
              sub'[j] = sub[j] /\ subStream'[j] = subStream[j] /\ feed'[j] = feed[j]

ErrorIsolation == [][IsolationStep]_vars

\* A failed read on one stream and a failed subscription, with the
\* connection open, another stream usable and the other subscription live.
ErrorIsolationWitness ==
  /\ call[1].ret.err = "RecvErr"
  /\ sub["NewTxs"].ret = "TransportErr"
  /\ conn = "open"
  /\ \E s \in StreamNames \ {call[1].strm} : Usable(s)
  /\ subStream["BeaconBlocks"].state = "open"
  /\ feed["BeaconBlocks"].delivered # <<>>

\* The response the server produced for the request a call's result answers.
AnsweredBy(c) == ResponseTo([id |-> call[c].ret.of, n |-> call[call[c].ret.of].n])

\* C11: a sequence send that returns a result returns the timestamp of the
\* first item of the response it read.
BatchTimestamp ==
  \A c \in 1..MaxCalls :
    (call[c].ret.kind = "ok" /\ call[c].strm \in SeqStreams) =>
      /\ Len(AnsweredBy(c).items) >= 1
      /\ call[c].ret.ts = AnsweredBy(c).items[1].ts

\* A batch of two transactions answered with two items of different timestamps.
BatchTimestampWitness ==
  \E c \in 1..MaxCalls :
    /\ call[c].ret.kind = "ok"
    /\ call[c].strm = "txSeqStream"
    /\ Len(AnsweredBy(c).items) = 2
    /\ AnsweredBy(c).items[1].ts # AnsweredBy(c).items[2].ts

\* C12: a sequence send that returns a result returns one hash per item of
\* the response, the i-th hash being the i-th item's, and as many hashes as
\* the call had inputs.
BatchHashes ==
  \A c \in 1..MaxCalls :
    (call[c].ret.kind = "ok" /\ call[c].strm \in SeqStreams) =>
      /\ Len(call[c].ret.hashes) = Len(AnsweredBy(c).items)
      /\ \A i \in 1..Len(AnsweredBy(c).items) :
           call[c].ret.hashes[i] = AnsweredBy(c).items[i].hash
      /\ Len(call[c].ret.hashes) = call[c].n

\* A raw batch of the largest size answered item by item.
BatchHashesWitness ==
  \E c \in 1..MaxCalls :
    /\ call[c].ret.kind = "ok"
    /\ call[c].strm = "rawTxSeqStream"
    /\ call[c].n = MaxBatch
    /\ Len(call[c].ret.hashes) = MaxBatch

\* C13 as stated: decoding an encoded legacy, access-list or dynamic-fee
\* transaction reproduces nonce, gas limit, value, recipient (absent stays
\* absent), input and (v, r, s), and chain id and fee fields where carried.
CodecRoundTrip ==
  codec.pc = "out" =>
    LET a == codec.tx
        b == codec.out IN
    /\ ~b.nil
    /\ b.type = a.type
    /\ b.nonce = a.nonce /\ b.gas = a.gas /\ b.value = a.value
    /\ b.to = a.to
    /\ b.data = a.data
    /\ b.v = a.v /\ b.r = a.r /\ b.s = a.s
    /\ a.type \in {1, 2} => TxChainId(b) = TxChainId(a)
    /\ a.type \in {0, 1} => TxGasPrice(b) = TxGasPrice(a)
    /\ a.type = 2 => /\ TxGasFeeCap(b) = TxGasFeeCap(a)
                     /\ TxGasTipCap(b) = TxGasTipCap(a)

\* C14 as stated: a gas price, fee cap or tip cap that fits the wire word
\* comes back unchanged.
FitsWire(x) == 0 <= x /\ x <= Pow2(WordBits) - 1

WireWidthPrecision ==
  codec.pc = "out" =>
    LET a == codec.tx
        b == codec.out IN
    /\ (a.type \in {0, 1} /\ FitsWire(a.gasPrice)) => b.gasPrice = a.gasPrice
    /\ (a.type = 2 /\ FitsWire(a.gasFeeCap)) => b.gasFeeCap = a.gasFeeCap
    /\ (a.type = 2 /\ FitsWire(a.gasTipCap)) => b.gasTipCap = a.gasTipCap

\* A call that has been issued and has not returned.
InFlight(c) == call[c].pc \in {"select", "recv"}

\* C15: while a call is in flight the client lets the next call of any send
\* operation start, on the same stream too; no lock orders them.  The
\* interleaving in which a call returns the other call's response is the
\* witness.
ConcurrentMisuse ==
  \A c \in ConcCalls :
    ( /\ ~crashed
      /\ connectRet = "ok"
      /\ closePc = 0
      /\ call[c].pc = "idle"
      /\ \A d \in 1..(c - 1) : call[d].pc # "idle"
      /\ \E d \in 1..(c - 1) : InFlight(d) ) =>
        /\ ENABLED SendTransaction(c, BaseTx)
        /\ ENABLED SendRawTransaction(c, "raw")
        /\ ENABLED SendTransactionSequence(c, <<BaseTx>>)
        /\ ENABLED SendRawTransactionSequence(c, <<"raw">>)

\* Two calls of one send operation, one returning the response the server
\* produced for the other's request.
ConcurrentMisuseWitness ==
  \E c, d \in ConcCalls :
    /\ c # d
    /\ call[c].strm = call[d].strm
    /\ call[c].ret.kind = "ok"
    /\ call[c].ret.of = d

\* C16: a call writes to its stream at most once and reads from it at most
\* once; it returns a write error without having read, and returns on its
\* first read result; a call that returned takes no further step, and a
\* worker that has written does not write again.
NoInternalRetry ==
  \A c \in 1..MaxCalls :
    /\ call[c].sends <= 1
    /\ call[c].recvs <= 1
    /\ call[c].ret.err = "SendErr" => call[c].sends = 1 /\ call[c].recvs = 0
    /\ call[c].ret.err = "RecvErr" => call[c].recvs = 1
    /\ call[c].ret.kind = "ok" => call[c].recvs = 1
    /\ call[c].recvs = 1 => call[c].pc \in {"done", "panic"}
    /\ call[c].pc = "done" => ~ENABLED CallerSelect(c) /\ ~ENABLED CallerRecv(c)
    /\ call[c].worker \in {"exited", "blocked"} => ~ENABLED WorkerSend(c)

\* A call whose write went out and whose read then failed.
NoInternalRetryWitness ==
  \E c \in 1..MaxCalls :
    /\ call[c].ret.err = "RecvErr"
    /\ call[c].sends = 1
    /\ call[c].worker = "exited"

\* C17: cancelling the context changes nothing else; a call leaves its read
\* only when the stream holds a response or has failed, and a launched worker
\* leaves its running state only by performing the write.
CancelStep ==
  \A c \in 1..MaxCalls :
    /\ (~call[c].cancelled /\ call'[c].cancelled) =>
         /\ call'[c] = [call[c] EXCEPT !.cancelled = TRUE]
         /\ stream' = stream
    /\ (call[c].pc = "recv" /\ call'[c].pc # "recv") =>
         \/ stream[call[c].strm].respQ # <<>>
         \/ stream[call[c].strm].state = "broken"
    /\ (call[c].worker = "run" /\ call'[c].worker # "run") =>
         call'[c].sends = call[c].sends + 1

CancellationNoEffect == [][CancelStep]_vars

\* A cancelled call still blocked in its read: the write has gone out, the
\* stream is open and the peer has not answered.
CancellationWitness ==
  \E c \in ConcCalls :
    /\ call[c].cancelled
    /\ call[c].pc = "recv"
    /\ call[c].worker = "exited"
    /\ stream[call[c].strm].state = "open"
    /\ stream[call[c].strm].respQ = <<>>

\* C18 as stated: no worker is left blocked handing over its write error:
\* once the caller is past its select nobody receives from errc, so a worker
\* blocked then stays blocked for ever.
WorkersTerminate ==
  \A c \in 1..MaxCalls :
    call[c].pc \in {"recv", "done", "panic"} => call[c].worker # "blocked"

\* C19 as stated: no sequence send panics on a response it receives.
SequenceSendNeverCrashes ==
  \A c \in 1..MaxCalls : call[c].pc # "panic"

\* C20 as stated: a Close called after a failed Connect does not panic, and
\* once it has returned the connection is not left open.
CloseAfterFailedConnect ==
  connectRet = "err" =>
    /\ closePc # 6
    /\ closePc = 5 => conn # "open"

====
